---- MODULE Spec2Model ----
(***************************************************************************)
(* LinkedIn skill extractor (src/src/linkedin_extractor.py).               *)
(*                                                                         *)
(* The model follows main(): setup_driver, login, scrape_skills (wait for  *)
(* the first containers, _scroll_until_loaded, one page_source read,       *)
(* _extract_skills_from_html), save_skills and, in the finally clause,     *)
(* close.  The browser is the environment: every call to it either raises  *)
(* or returns a value drawn from a bounded set.                            *)
(*                                                                         *)
(*   Spec         the whole run of main()                                  *)
(*   SpecReads    _scroll_until_loaded alone, recording every count read   *)
(*   SpecExtract  _extract_skills_from_html alone, over a wider set of     *)
(*                parsed pages                                             *)
(***************************************************************************)
EXTENDS Integers, Sequences, FiniteSets, TLC

VARIABLES
    pc,             \* position of the single thread of control
    driver,         \* self.driver: "none", "open" or "quit"
    saveHtml,       \* the save_html argument of scrape_skills
    timedOut,       \* the WebDriverWait of scrape_skills raised
    warned,         \* logger.warning was called for that timeout
    prev,           \* _scroll_until_loaded: local prev
    stable,         \* _scroll_until_loaded: local stable
    current,        \* _scroll_until_loaded: local current (0 before the first read)
    i,              \* _scroll_until_loaded: iterations of the for loop completed
    reveals,        \* calls of execute_script(scrollTo ...) made so far
    observes,       \* calls of find_elements that returned a count
    reads,          \* the counts find_elements returned, in order (SpecReads only)
    increasing,     \* every count read so far exceeded the one read before it
    loopExit,       \* how the for loop ended: "none", "stable" or "budget"
    snapshots,      \* reads of driver.page_source made so far
    pageSource,     \* scrape_skills: local page_source
    htmlFile,       \* skills_page.html was written
    soup,           \* the parsed page handed to _extract_skills_from_html
    ci,             \* index of the current element of `elements`
    si,             \* index of the current span of `spans`
    skills,         \* _extract_skills_from_html: local skills
    origin,         \* for each entry of skills, the <<element, span>> it came from
    returned,       \* scrape_skills returned a value
    result,         \* the value scrape_skills returned
    raised,         \* the exception in flight, "none" when there is none
    providerFailed, \* execute_script, find_elements or page_source raised
    saved,          \* save_skills was called
    outFile         \* what save_skills wrote

vars == <<pc, driver, saveHtml, timedOut, warned, prev, stable, current, i, reveals,
          observes, reads, increasing, loopExit, snapshots, pageSource,
          htmlFile, soup, ci, si, skills, origin, returned, result, raised,
          providerFailed, saved, outFile>>

loopVars    == <<prev, stable, current, i, reveals, observes, reads, increasing, loopExit>>
extractVars == <<soup, ci, si, skills, origin>>
pageVars    == <<snapshots, pageSource, htmlFile>>
mainVars    == <<driver, saveHtml, returned, result, saved, outFile>>
waitVars    == <<timedOut, warned>>
errVars     == <<raised, providerFailed>>

----------------------------------------------------------------------------
(* Program constants and bounds *)

MaxSteps           == 20   \* range(20)
StableRoundsToStop == 2    \* if stable >= 2

MaxObserved  == 20   \* Spec: largest count find_elements reports
MaxHistCount == 5    \* SpecReads: largest count find_elements reports
MaxReads     == 4    \* SpecReads: longest recorded sequence of counts
MaxPageElems == 2    \* Spec: most elements in a page read by page_source
MaxElems     == 3    \* SpecExtract: most elements in a parsed page

----------------------------------------------------------------------------
(* Text: str.strip, str.lower, the `in` operator on strings *)

\* The characters str.strip() removes: U+0009..U+000D, U+001C..U+001F,
\* U+0020, U+0085, U+00A0 and U+1680, each written as itself.  str.strip()
\* also removes U+2000..U+200A, U+2028, U+2029, U+202F, U+205F and U+3000;
\* no string literal can hold a character from U+2000 on, so no text of the
\* model contains one.
Whitespace ==
    {"\t", "\n", "", "\f", "\r", "", "", "", "", " ",
     "", " ", " "}

UpperAlpha == "ABCDEFGHIJKLMNOPQRSTUVWXYZ"
LowerAlpha == "abcdefghijklmnopqrstuvwxyz"

CharAt(s, k) == SubSeq(s, k, k)

LowerChar(c) ==
    IF \E k \in 1..Len(UpperAlpha) : CharAt(UpperAlpha, k) = c
    THEN CharAt(LowerAlpha, CHOOSE k \in 1..Len(UpperAlpha) : CharAt(UpperAlpha, k) = c)
    ELSE c

\* text.lower(), on the letters A..Z; lower() of no other character yields
\* a letter of "endorsement", the only use made of the lowered text
RECURSIVE Lower(_)
Lower(s) ==
    IF Len(s) = 0 THEN ""
    ELSE LowerChar(CharAt(s, 1)) \o Lower(SubSeq(s, 2, Len(s)))

RECURSIVE LStrip(_)
LStrip(s) ==
    IF Len(s) > 0 /\ CharAt(s, 1) \in Whitespace
    THEN LStrip(SubSeq(s, 2, Len(s)))
    ELSE s

RECURSIVE RStrip(_)
RStrip(s) ==
    IF Len(s) > 0 /\ CharAt(s, Len(s)) \in Whitespace
    THEN RStrip(SubSeq(s, 1, Len(s) - 1))
    ELSE s

Strip(s) == RStrip(LStrip(s))

Contains(sub, s) ==
    \E k \in 1..(Len(s) - Len(sub) + 1) : SubSeq(s, k, k + Len(sub) - 1) = sub

InSeq(x, q) == \E k \in 1..Len(q) : q[k] = x

RECURSIVE Join(_, _)
Join(sep, q) ==
    IF Len(q) = 0 THEN ""
    ELSE IF Len(q) = 1 THEN q[1]
    ELSE q[1] \o sep \o Join(sep, Tail(q))

----------------------------------------------------------------------------
(* The parsed page.  A page is the sequence, in document order, of its      *)
(* elements that carry spans; an element is [tag, id, spans] (id "" when    *)
(* the attribute is absent) and a span is [aria, strings]: the value of its *)
(* aria-hidden attribute and its text nodes.                                *)

Span(aria, strings) == [aria |-> aria, strings |-> strings]
Elem(tag, id, spans) == [tag |-> tag, id |-> id, spans |-> spans]
Visible(text) == Span("true", <<text>>)
Li(spans) == Elem("li", "profilePagedListComponent-skill", spans)

\* the id filter of find_all: lambda x: x and "profilePagedListComponent" in x
IdMatches(id) == id # "" /\ Contains("profilePagedListComponent", id)

\* soup.find_all("li", id=...)
IsContainer(e) == e.tag = "li" /\ IdMatches(e.id)

RECURSIVE Elements(_)
Elements(page) ==
    IF page = <<>> THEN <<>>
    ELSE (IF IsContainer(Head(page)) THEN <<Head(page)>> ELSE <<>>)
         \o Elements(Tail(page))

\* elem.find_all("span", {"aria-hidden": "true"})
IsCandidate(sp) == sp.aria = "true"

RECURSIVE SelectCandidates(_)
SelectCandidates(q) ==
    IF q = <<>> THEN <<>>
    ELSE (IF IsCandidate(Head(q)) THEN <<Head(q)>> ELSE <<>>)
         \o SelectCandidates(Tail(q))

Spans(e) == SelectCandidates(e.spans)

\* span.get_text(strip=True): every text node stripped, the empty ones
\* dropped, the rest joined without a separator
RECURSIVE GetTextStrip(_)
GetTextStrip(strings) ==
    IF strings = <<>> THEN ""
    ELSE Strip(Head(strings)) \o GetTextStrip(Tail(strings))

CandidateText(sp) == GetTextStrip(sp.strings)

\* if text and "endorsement" not in text.lower()
SurvivesExact(text) == text # "" /\ ~Contains("endorsement", text)
SurvivesStem(text) == text # "" /\ ~Contains("endorse", Lower(text))
Survives(text) == text # "" /\ ~Contains("endorsement", Lower(text))

\* if text not in skills
AlwaysFresh(text, sk) == TRUE
Fresh(text, sk) == ~InSeq(text, sk)

----------------------------------------------------------------------------
(* Inputs: the pages page_source can return *)

SeqsUpTo(S, n) == UNION {[1..k -> S] : k \in 0..n}

ElemPool ==
    { Li(<<Visible("Python")>>),
      Li(<<Span("true", <<"  Py", "thon\n">>), Visible("3 endorsements"),
           Visible("Senior level")>>),
      Li(<<Visible("12 Endorsements"), Visible(" \t "), Visible("Go")>>),
      Li(<<Visible("Rust"), Visible("Systems"), Visible("Go")>>),
      Li(<<Span("false", <<"Hidden">>), Span("true", <<" endorse", "ment ">>)>>),
      Elem("li", "", <<Visible("Java")>>),
      Elem("div", "profilePagedListComponent-other", <<Visible("Kotlin")>>) }

PageDocs == SeqsUpTo(ElemPool, MaxPageElems)

\* the texts "Python", "Python (endorsed)", "" and "Go", in that order, cut
\* into consecutive containers in every possible way
ExampleTexts == <<"Python", "Python (endorsed)", "", "Go">>

Min(S) == CHOOSE x \in S : \A y \in S : x <= y

RECURSIVE SplitFrom(_, _, _)
SplitFrom(texts, cuts, start) ==
    IF start > Len(texts) THEN <<>>
    ELSE LET last == Min({c \in cuts : c >= start} \cup {Len(texts)})
         IN  <<Li([k \in 1..(last - start + 1) |-> Visible(texts[start + k - 1])])>>
             \o SplitFrom(texts, cuts, last + 1)

ExampleDoc(cuts) == SplitFrom(ExampleTexts, cuts, 1)
ExampleDocs == {ExampleDoc(cuts) : cuts \in SUBSET (1..(Len(ExampleTexts) - 1))}

ExtractInputs == SeqsUpTo(ElemPool, MaxElems) \cup ExampleDocs

----------------------------------------------------------------------------
(* _scroll_until_loaded: the decisions of one iteration *)

\* if current > prev
GrewOrEqual(cur, p) == cur >= p
Grew(cur, p) == cur > p

NextPrev(cur, p) == IF Grew(cur, p) THEN cur ELSE p
NextStable(cur, p, st) == IF Grew(cur, p) THEN 0 ELSE st + 1

\* if stable >= 2: break
ShouldStopLate(st) == st > StableRoundsToStop
ShouldStop(st) == st >= StableRoundsToStop

\* for i in range(20): the loop ends once 20 iterations have run
LoopExhaustedLate(n) == n > MaxSteps
LoopExhausted(n) == n >= MaxSteps

----------------------------------------------------------------------------
(* Exceptions.  Nothing between the raising call and main's finally clause *)
(* catches, so the exception reaches close() and then main's caller.  An   *)
(* exception is named after the call that raised it.                       *)

RaiseSwallowed(exc) == pc' = "save" /\ raised' = "none"
Raise(exc) == pc' = "close" /\ raised' = exc

----------------------------------------------------------------------------
(* main() up to the call of scrape_skills *)

Init ==
    /\ pc = "setup"
    /\ driver = "none"
    /\ saveHtml \in BOOLEAN
    /\ timedOut = FALSE /\ warned = FALSE
    /\ prev = 0 /\ stable = 0 /\ current = 0 /\ i = 0
    /\ reveals = 0 /\ observes = 0 /\ reads = <<>>
    /\ increasing = TRUE /\ loopExit = "none"
    /\ snapshots = 0 /\ pageSource = <<>> /\ htmlFile = FALSE
    /\ soup = <<>> /\ ci = 1 /\ si = 1 /\ skills = <<>> /\ origin = <<>>
    /\ returned = FALSE /\ result = <<>>
    /\ raised = "none" /\ providerFailed = FALSE
    /\ saved = FALSE /\ outFile = ""

\* scraper.setup_driver()
SetupDriver ==
    /\ pc = "setup"
    /\ driver' = "open"
    /\ pc' = "login"
    /\ UNCHANGED <<saveHtml, returned, result, saved, outFile>>
    /\ UNCHANGED <<waitVars, loopVars, pageVars, extractVars, errVars>>

SetupDriverFails ==
    /\ pc = "setup"
    /\ Raise("SessionNotCreatedException")
    /\ UNCHANGED <<mainVars, waitVars, loopVars, pageVars, extractVars, providerFailed>>

\* scraper.login(...)
Login ==
    /\ pc = "login"
    /\ pc' = "navigate"
    /\ UNCHANGED <<mainVars, waitVars, loopVars, pageVars, extractVars, errVars>>

\* login logs the failure and re-raises it
LoginFails ==
    /\ pc = "login"
    /\ Raise("LoginError")
    /\ UNCHANGED <<mainVars, waitVars, loopVars, pageVars, extractVars, providerFailed>>

\* scrape_skills: self.driver.get(skills_url)
Navigate ==
    /\ pc = "navigate"
    /\ pc' = "wait"
    /\ UNCHANGED <<mainVars, waitVars, loopVars, pageVars, extractVars, errVars>>

NavigateFails ==
    /\ pc = "navigate"
    /\ Raise("NavigationError")
    /\ UNCHANGED <<mainVars, waitVars, loopVars, pageVars, extractVars, providerFailed>>

\* scrape_skills: the WebDriverWait found a container
WaitForSkills ==
    /\ pc = "wait"
    /\ pc' = "enter"
    /\ UNCHANGED <<mainVars, waitVars, loopVars, pageVars, extractVars, errVars>>

\* scrape_skills: the WebDriverWait raised; except Exception logs a warning
WaitRaises ==
    /\ pc = "wait"
    /\ Raise("TimeoutException")
    /\ timedOut' = TRUE
    /\ UNCHANGED <<mainVars, warned, loopVars, pageVars, extractVars, providerFailed>>

WaitTimesOut ==
    /\ pc = "wait"
    /\ timedOut' = TRUE
    /\ warned' = TRUE
    /\ pc' = "enter"
    /\ UNCHANGED <<mainVars, loopVars, pageVars, extractVars, errVars>>

----------------------------------------------------------------------------
(* _scroll_until_loaded *)

\* self._scroll_until_loaded(): prev = 0, stable = 0
EnterScroll ==
    /\ pc = "enter"
    /\ prev' = 0 /\ stable' = 0 /\ current' = 0 /\ i' = 0
    /\ increasing' = TRUE /\ loopExit' = "none"
    /\ pc' = "scroll"
    /\ UNCHANGED <<reveals, observes, reads>>
    /\ UNCHANGED <<mainVars, waitVars, pageVars, extractVars, errVars>>

\* execute_script("window.scrollTo(0, document.body.scrollHeight);"), time.sleep(2)
Scroll ==
    /\ pc = "scroll"
    /\ reveals' = reveals + 1
    /\ pc' = "count"
    /\ UNCHANGED <<prev, stable, current, i, observes, reads, increasing, loopExit>>
    /\ UNCHANGED <<mainVars, waitVars, pageVars, extractVars, errVars>>

ScrollFails ==
    /\ pc = "scroll"
    /\ reveals' = reveals + 1
    /\ providerFailed' = TRUE
    /\ Raise("ScrollError")
    /\ UNCHANGED <<prev, stable, current, i, observes, reads, increasing, loopExit>>
    /\ UNCHANGED <<mainVars, waitVars, pageVars, extractVars>>

\* current = len(find_elements(...)) returned c; the rest of the iteration
ObserveCount(c) ==
    /\ pc = "count"
    /\ current' = c
    /\ prev' = NextPrev(c, prev)
    /\ stable' = NextStable(c, prev, stable)
    /\ i' = i + 1
    /\ observes' = observes + 1
    /\ increasing' = (increasing /\ (i = 0 \/ c > current))
    /\ loopExit' = IF ShouldStop(stable') THEN "stable"
                   ELSE IF LoopExhausted(i') THEN "budget" ELSE "none"
    /\ pc' = IF ShouldStop(stable') \/ LoopExhausted(i') THEN "scrolled" ELSE "scroll"
    /\ UNCHANGED reveals
    /\ UNCHANGED <<mainVars, waitVars, pageVars, extractVars, errVars>>

Observe ==
    /\ \E c \in 0..MaxObserved : ObserveCount(c)
    /\ UNCHANGED reads

ObserveRecorded ==
    /\ Len(reads) < MaxReads
    /\ \E c \in 0..MaxHistCount : ObserveCount(c) /\ reads' = Append(reads, c)

ObserveFails ==
    /\ pc = "count"
    /\ providerFailed' = TRUE
    /\ Raise("CountError")
    /\ UNCHANGED <<loopVars, mainVars, waitVars, pageVars, extractVars>>

\* logger.info("Scrolling complete."), return: the locals are gone
ScrollReturn ==
    /\ pc = "scrolled"
    /\ prev' = 0 /\ stable' = 0 /\ current' = 0 /\ i' = 0
    /\ increasing' = TRUE /\ reads' = <<>>
    /\ pc' = "snapshot"
    /\ UNCHANGED <<reveals, observes, loopExit>>
    /\ UNCHANGED <<mainVars, waitVars, pageVars, extractVars, errVars>>

----------------------------------------------------------------------------
(* scrape_skills after the loop *)

\* page_source = self.driver.page_source, then back into the loop
TakeSnapshotInLoop ==
    /\ pc = "snapshot"
    /\ \E d \in PageDocs : pageSource' = d
    /\ snapshots' = snapshots + 1
    /\ pc' = "scroll"
    /\ UNCHANGED <<htmlFile, mainVars, waitVars, loopVars, extractVars, errVars>>

\* page_source = self.driver.page_source
TakeSnapshot ==
    /\ pc = "snapshot"
    /\ \E d \in PageDocs : pageSource' = d
    /\ snapshots' = snapshots + 1
    /\ pc' = "parse"
    /\ UNCHANGED <<htmlFile, mainVars, waitVars, loopVars, extractVars, errVars>>

SnapshotFails ==
    /\ pc = "snapshot"
    /\ snapshots' = snapshots + 1
    /\ providerFailed' = TRUE
    /\ Raise("SnapshotError")
    /\ UNCHANGED <<pageSource, htmlFile, mainVars, waitVars, loopVars, extractVars>>

\* if save_html: write skills_page.html; BeautifulSoup(page_source, ...)
\* rejects the markup: the file is written, the exception leaves scrape_skills
ParserFails ==
    /\ pc = "parse"
    /\ htmlFile' = saveHtml
    /\ Raise("ParserRejectedMarkup")
    /\ UNCHANGED <<snapshots, pageSource>>
    /\ UNCHANGED <<mainVars, waitVars, loopVars, extractVars, providerFailed>>

\* if save_html: write skills_page.html; soup = BeautifulSoup(page_source)
ParsePage ==
    /\ pc = "parse"
    /\ htmlFile' = saveHtml
    /\ soup' = pageSource
    /\ pc' = "extract"
    /\ UNCHANGED <<snapshots, pageSource, ci, si, skills, origin>>
    /\ UNCHANGED <<mainVars, waitVars, loopVars, errVars>>

\* if save_html: open("skills_page.html", "w") raises; nothing is written
\* and the exception leaves scrape_skills
ParsePageFails ==
    /\ pc = "parse"
    /\ saveHtml
    /\ Raise("HtmlWriteError")
    /\ UNCHANGED <<mainVars, waitVars, loopVars, pageVars, extractVars, providerFailed>>

----------------------------------------------------------------------------
(* _extract_skills_from_html *)

\* skills = [], elements = soup.find_all(...)
BeginExtract ==
    /\ pc = "extract"
    /\ skills' = <<>> /\ origin' = <<>>
    /\ ci' = 1 /\ si' = 1
    /\ pc' = "elem"
    /\ UNCHANGED <<soup, mainVars, waitVars, loopVars, pageVars, errVars>>

\* for elem in elements: spans = elem.find_all(...)
NextElem ==
    /\ pc = "elem"
    /\ ci <= Len(Elements(soup))
    /\ si' = 1
    /\ pc' = "span"
    /\ UNCHANGED <<soup, ci, skills, origin>>
    /\ UNCHANGED <<mainVars, waitVars, loopVars, pageVars, errVars>>

\* for span in spans: one pass through the body
EvalSpan ==
    /\ pc = "span"
    /\ si <= Len(Spans(Elements(soup)[ci]))
    /\ LET text == CandidateText(Spans(Elements(soup)[ci])[si])
       IN  IF Survives(text) /\ Fresh(text, skills)
           THEN /\ skills' = Append(skills, text)
                /\ origin' = Append(origin, <<ci, si>>)
                /\ ci' = ci + 1 /\ si' = 1
                /\ pc' = "elem"
           ELSE /\ si' = si + 1
                /\ UNCHANGED <<skills, origin, ci, pc>>
    /\ UNCHANGED <<soup, mainVars, waitVars, loopVars, pageVars, errVars>>

\* the spans of this element are exhausted without a break
SpansDone ==
    /\ pc = "span"
    /\ si > Len(Spans(Elements(soup)[ci]))
    /\ ci' = ci + 1 /\ si' = 1
    /\ pc' = "elem"
    /\ UNCHANGED <<soup, skills, origin>>
    /\ UNCHANGED <<mainVars, waitVars, loopVars, pageVars, errVars>>

\* return skills
ExtractReturn ==
    /\ pc = "elem"
    /\ ci > Len(Elements(soup))
    /\ result' = skills
    /\ returned' = TRUE
    /\ pc' = "save"
    /\ UNCHANGED <<driver, saveHtml, saved, outFile>>
    /\ UNCHANGED <<extractVars, waitVars, loopVars, pageVars, errVars>>

----------------------------------------------------------------------------
(* main() after scrape_skills *)

\* scraper.save_skills(skills, args.output)
SaveSkills ==
    /\ pc = "save"
    /\ outFile' = Join("\n", result)
    /\ saved' = TRUE
    /\ pc' = "close"
    /\ UNCHANGED <<driver, saveHtml, returned, result>>
    /\ UNCHANGED <<extractVars, waitVars, loopVars, pageVars, errVars>>

\* save_skills is called and open(filename, "w") raises; nothing is written
SaveSkillsFails ==
    /\ pc = "save"
    /\ saved' = TRUE
    /\ Raise("OutputWriteError")
    /\ UNCHANGED <<driver, saveHtml, returned, result, outFile>>
    /\ UNCHANGED <<extractVars, waitVars, loopVars, pageVars, providerFailed>>

\* finally: scraper.close(), and self.driver.quit() raises: that exception
\* replaces the one in flight, if any, and leaves main()
CloseFails ==
    /\ pc = "close"
    /\ driver = "open"
    /\ raised' = "QuitError"
    /\ pc' = "done"
    /\ UNCHANGED <<mainVars, extractVars, waitVars, loopVars, pageVars, providerFailed>>

\* finally: scraper.close()
Close ==
    /\ pc = "close"
    /\ driver' = IF driver = "open" THEN "quit" ELSE driver
    /\ pc' = "done"
    /\ UNCHANGED <<saveHtml, returned, result, saved, outFile>>
    /\ UNCHANGED <<extractVars, waitVars, loopVars, pageVars, errVars>>

----------------------------------------------------------------------------
(* Specifications *)

Next ==
    \/ SetupDriver \/ SetupDriverFails
    \/ Login \/ LoginFails
    \/ Navigate \/ NavigateFails
    \/ WaitForSkills \/ WaitTimesOut
    \/ EnterScroll \/ Scroll \/ ScrollFails
    \/ Observe \/ ObserveFails
    \/ ScrollReturn
    \/ TakeSnapshot \/ SnapshotFails
    \/ ParsePage \/ ParsePageFails \/ ParserFails
    \/ BeginExtract \/ NextElem \/ EvalSpan \/ SpansDone \/ ExtractReturn
    \/ SaveSkills \/ SaveSkillsFails
    \/ Close \/ CloseFails

Spec == Init /\ [][Next]_vars

\* _scroll_until_loaded has just been entered
InitReads ==
    /\ pc = "scroll"
    /\ driver = "open"
    /\ saveHtml \in BOOLEAN
    /\ timedOut \in BOOLEAN /\ warned = timedOut
    /\ prev = 0 /\ stable = 0 /\ current = 0 /\ i = 0
    /\ reveals = 0 /\ observes = 0 /\ reads = <<>>
    /\ increasing = TRUE /\ loopExit = "none"
    /\ snapshots = 0 /\ pageSource = <<>> /\ htmlFile = FALSE
    /\ soup = <<>> /\ ci = 1 /\ si = 1 /\ skills = <<>> /\ origin = <<>>
    /\ returned = FALSE /\ result = <<>>
    /\ raised = "none" /\ providerFailed = FALSE
    /\ saved = FALSE /\ outFile = ""

NextReads ==
    \/ Scroll \/ ScrollFails
    \/ ObserveRecorded \/ ObserveFails
    \/ ScrollReturn

SpecReads == InitReads /\ [][NextReads]_vars

\* _extract_skills_from_html has just been called on a parsed page
InitExtract ==
    /\ pc = "extract"
    /\ driver = "open"
    /\ saveHtml = FALSE
    /\ timedOut = FALSE /\ warned = FALSE
    /\ prev = 0 /\ stable = 0 /\ current = 0 /\ i = 0
    /\ reveals = 2 /\ observes = 2 /\ reads = <<>>
    /\ increasing = TRUE /\ loopExit = "stable"
    /\ snapshots = 1 /\ pageSource \in ExtractInputs /\ htmlFile = FALSE
    /\ soup = pageSource /\ ci = 1 /\ si = 1 /\ skills = <<>> /\ origin = <<>>
    /\ returned = FALSE /\ result = <<>>
    /\ raised = "none" /\ providerFailed = FALSE
    /\ saved = FALSE /\ outFile = ""

NextExtract ==
    \/ BeginExtract \/ NextElem \/ EvalSpan \/ SpansDone \/ ExtractReturn

SpecExtract == InitExtract /\ [][NextExtract]_vars

----------------------------------------------------------------------------
(* What a recorded sequence of counts says, computed from the sequence alone *)

Max(S) == CHOOSE x \in S : \A y \in S : x >= y

\* the largest of the first n counts, 0 when n = 0
RunningMax(q, n) == Max({0} \cup {q[k] : k \in 1..n})

\* the k-th read did not increase the observed count
NoGrowthAt(q, k) == q[k] <= RunningMax(q, k - 1)

\* the n-th read is the second of two consecutive reads without growth
StableAt(q, n) ==
    /\ n >= StableRoundsToStop
    /\ \A k \in (n - StableRoundsToStop + 1)..n : NoGrowthAt(q, k)

\* the position of the last read that increased the observed count, else 0
LastGrowth(q) == Max({0} \cup {k \in 1..Len(q) : ~NoGrowthAt(q, k)})

InLoop == pc \in {"scroll", "count"}

\* C1: _scroll_until_loaded leaves the loop at the first read that is the
\* second of two consecutive reads without growth and scrolls no more after
\* it: while the loop is still running no such read has happened, and when
\* it stopped for stability the last read is the first such read and every
\* scroll was followed by a read.  For the counts 3, 5, 5, 5 it has stopped
\* after the 4th read with 4 scrolls.
C1_StopsAtFirstStableStep ==
    /\ InLoop => \A n \in 1..Len(reads) : ~StableAt(reads, n)
    /\ (pc = "scrolled" /\ loopExit = "stable") =>
          /\ StableAt(reads, Len(reads))
          /\ \A n \in 1..(Len(reads) - 1) : ~StableAt(reads, n)
          /\ reveals = Len(reads)
    /\ reads = <<3, 5, 5, 5>> =>
          /\ pc = "scrolled" /\ loopExit = "stable"
          /\ reveals = 4 /\ observes = 4

C1_Witness == reads = <<3, 5, 5, 5>> /\ pc = "scrolled" /\ reveals = 4

\* C10: after every read prev is the largest count read so far (0 before
\* any read), so it never falls below a count read, and stable is the number
\* of reads since the last one that exceeded everything read before it,
\* between 0 and 2; the reads 5, 3, 4 leave prev = 5 and stable = 2, the 4
\* counting as a round without growth.
C10_PrevIsRunningMax ==
    /\ prev = RunningMax(reads, Len(reads))
    /\ \A k \in 1..Len(reads) : reads[k] <= prev
    /\ stable = Len(reads) - LastGrowth(reads)
    /\ 0 <= stable /\ stable <= StableRoundsToStop
    /\ reads = <<5, 3, 4>> => prev = 5 /\ stable = 2 /\ pc = "scrolled"

C10_Witness == reads = <<5, 3, 4>> /\ stable = 2 /\ pc = "scrolled"

\* iterations the for loop still has, counted in half steps
LoopMeasure == 2 * (MaxSteps - i) - (IF pc = "count" THEN 1 ELSE 0)

\* C2: the loop is bounded: no more than MaxSteps scrolls are ever made, the
\* number of completed iterations never passes MaxSteps and a scroll is made
\* only with iterations left; every step taken inside the loop uses up some
\* of what is left, so the loop ends; when every count read exceeded the one
\* before it, the loop ends after exactly MaxSteps scrolls.
C2_AtMostMaxStepsReveals ==
    /\ [](/\ reveals <= MaxSteps /\ i <= MaxSteps
          /\ InLoop => LoopMeasure > 0
          /\ pc = "scroll" => i < MaxSteps /\ reveals = i
          /\ pc = "count" => i < MaxSteps /\ reveals = i + 1
          /\ pc = "scrolled" => reveals = i /\ observes = i
          /\ (pc = "scrolled" /\ increasing) =>
                reveals = MaxSteps /\ loopExit = "budget")
    /\ [][InLoop => (LoopMeasure' < LoopMeasure \/ ~InLoop')]_vars

C2_Witness ==
    pc = "scrolled" /\ increasing /\ reveals = MaxSteps /\ current >= MaxSteps - 1

----------------------------------------------------------------------------
(* What a parsed page says about its containers, stated on the texts *)

\* the text holds "endorsement" in some letter case
IsNoise(text) == Contains("endorsement", Lower(text))

\* the text is empty or made of whitespace only
IsBlank(text) == Strip(text) = ""

\* the candidate texts of a container, in document order
Candidates(e) == [k \in 1..Len(Spans(e)) |-> CandidateText(Spans(e)[k])]

SurvivorIdx(e) ==
    {k \in 1..Len(Spans(e)) : ~IsBlank(Candidates(e)[k]) /\ ~IsNoise(Candidates(e)[k])}

\* the position of the first surviving candidate of a container, else 0
FirstSurvivor(e) == IF SurvivorIdx(e) = {} THEN 0 ELSE Min(SurvivorIdx(e))

NoDuplicates(q) == \A a, b \in 1..Len(q) : q[a] = q[b] => a = b

IsPrefix(q, r) == Len(q) <= Len(r) /\ SubSeq(r, 1, Len(q)) = q

Extracting == pc \in {"elem", "span"}

\* C3: every record comes from the first surviving candidate of its
\* container, and a container gives at most one record.
C3_OnlyFirstSurvivor ==
    /\ \A k \in 1..Len(origin) :
          origin[k][2] = FirstSurvivor(Elements(soup)[origin[k][1]])
    /\ \A a, b \in 1..Len(origin) : origin[a][1] = origin[b][1] => a = b

\* C4: at every point of an extraction pass and in the returned value no two
\* records are equal, and a step of the pass only ever appends to the
\* records it has.
C4_UniqueInFirstSeenOrder ==
    /\ [](NoDuplicates(skills) /\ NoDuplicates(result))
    /\ [][IsPrefix(skills, skills') /\ (returned' => result' = skills)]_vars

C4_Witness ==
    /\ returned /\ Len(result) >= 2
    /\ \E a, b \in 1..Len(Elements(soup)) :
          /\ a < b
          /\ FirstSurvivor(Elements(soup)[a]) > 0
          /\ FirstSurvivor(Elements(soup)[b]) > 0
          /\ Candidates(Elements(soup)[a])[FirstSurvivor(Elements(soup)[a])]
               = Candidates(Elements(soup)[b])[FirstSurvivor(Elements(soup)[b])]

\* C8: no record holds "endorsement" in any letter case and none is empty or
\* blank; and a rejected candidate does not end the container's turn: once
\* extraction has returned, the first surviving candidate of every container
\* is among the records.
C8_NoNoiseNoBlank ==
    /\ \A k \in 1..Len(skills) : ~IsNoise(skills[k]) /\ ~IsBlank(skills[k])
    /\ \A k \in 1..Len(result) : ~IsNoise(result[k]) /\ ~IsBlank(result[k])
    /\ returned =>
          \A c \in 1..Len(Elements(soup)) :
             LET e == Elements(soup)[c]
             IN  FirstSurvivor(e) > 0 => InSeq(Candidates(e)[FirstSurvivor(e)], result)

\* a record taken from behind a noise candidate and a blank one
C8_Witness ==
    /\ returned
    /\ \E k \in 1..Len(origin) :
          LET e == Elements(soup)[origin[k][1]]
          IN  /\ origin[k][2] = 3
              /\ IsNoise(Candidates(e)[1])
              /\ IsBlank(Candidates(e)[2])

AllCuts == 1..(Len(ExampleTexts) - 1)

\* C9 as stated: the containers carrying "Python", "Python (endorsed)", ""
\* and "Go" in that order give exactly <<"Python", "Go">>.
C9_ExampleAsStated ==
    (returned /\ soup \in ExampleDocs) => result = <<"Python", "Go">>

\* C9 as amended: with one text per container the result is "Python",
\* "Python (endorsed)", "Go"; however the four texts are grouped, the result
\* is <<"Python", "Go">> exactly when "Python (endorsed)" shares the
\* container of "Python" and "Go" lies in a later container.
C9_ExampleAmended ==
    returned =>
       \A cuts \in SUBSET AllCuts :
          soup = ExampleDoc(cuts) =>
             /\ cuts = AllCuts => result = <<"Python", "Python (endorsed)", "Go">>
             /\ result = <<"Python", "Go">> <=> (1 \notin cuts /\ cuts # {})
             /\ Len(result) >= 1 /\ result[1] = "Python"
             /\ ~InSeq("", result)

C9_Witness ==
    /\ returned
    /\ soup = ExampleDoc(AllCuts)
    /\ result = <<"Python", "Python (endorsed)", "Go">>

----------------------------------------------------------------------------
(* The run of scrape_skills inside main() *)

BeforeSnapshot ==
    pc \in {"setup", "login", "navigate", "wait", "enter", "scroll", "count",
            "scrolled", "snapshot"}

AfterSnapshot == pc \in {"parse", "extract", "elem", "span", "save"}

ProviderErrors == {"ScrollError", "CountError", "SnapshotError"}

\* C5: page_source is read at most once in a run, and only once the loop has
\* ended, whether by stability or by the step budget; from that read on no
\* scroll is made and no count is read; the page the extractor works on is
\* the one that read returned, and a run that returns has read it exactly
\* once.
C5_OneSnapshotAfterLoop ==
    /\ [](/\ snapshots <= 1
          /\ snapshots = 1 => loopExit \in {"stable", "budget"} /\ ~BeforeSnapshot
          /\ BeforeSnapshot => snapshots = 0
          /\ AfterSnapshot => snapshots = 1
          /\ (Extracting \/ pc \in {"extract", "save"}) => soup = pageSource
          /\ returned => snapshots = 1 /\ reveals >= 1)
    /\ [][snapshots >= 1 =>
             /\ reveals' = reveals /\ observes' = observes
             /\ (snapshots' = snapshots => pageSource' = pageSource)]_vars

\* a run that used up the step budget and returned
C5_Witness ==
    /\ pc = "done" /\ returned
    /\ loopExit = "budget" /\ reveals = MaxSteps
    /\ snapshots = 1 /\ soup = pageSource /\ Len(soup) > 0

\* C6: when execute_script, find_elements or page_source raises, that same
\* exception is the one in flight when control is back in main (its finally
\* clause) and stays so unless quit() raises there in its turn;
\* scrape_skills returns nothing, save_skills is not called and nothing is
\* written.
C6_ProviderFailurePropagates ==
    providerFailed =>
       /\ pc \in {"close", "done"}
       /\ pc = "close" => raised \in ProviderErrors
       /\ raised \in ProviderErrors \cup {"QuitError"}
       /\ raised = "QuitError" => pc = "done" /\ driver = "open"
       /\ raised \in ProviderErrors =>
             /\ raised = "SnapshotError" <=> snapshots = 1
             /\ raised = "CountError" => reveals = observes + 1
             /\ raised = "ScrollError" => reveals = observes + 1 /\ snapshots = 0
       /\ ~returned /\ result = <<>>
       /\ ~saved /\ outFile = "" /\ ~htmlFile

\* the run is over, page_source having raised after a finished loop
C6_Witness ==
    /\ providerFailed /\ pc = "done" /\ driver = "quit"
    /\ raised = "SnapshotError" /\ reveals >= 2

\* what can raise after the first wait
LaterErrors ==
    ProviderErrors \cup
       {"HtmlWriteError", "ParserRejectedMarkup", "OutputWriteError", "QuitError"}

\* C7: a timeout of the first wait is logged as a warning and is never the
\* exception in flight; the loop then runs, so that past the loop at least
\* one scroll and one count were made, and unless a later call (of the
\* browser, of the parser, or writing a file) raises, the run takes its
\* snapshot, returns the records and saves them.
C7_TimeoutIsNotFatal ==
    timedOut =>
       /\ warned
       /\ raised # "TimeoutException"
       /\ raised \in {"none"} \cup LaterErrors
       /\ pc \in {"enter", "scroll", "count"} \/ reveals >= 1
       /\ (pc \in {"scrolled", "snapshot"} \/ AfterSnapshot) => observes >= 1
       /\ (pc = "done" /\ raised \in {"none", "OutputWriteError"}) =>
             returned /\ snapshots = 1 /\ saved /\ reveals >= 1
       /\ (pc = "done" /\ raised = "none") => outFile = Join("\n", result)

C7_Witness ==
    /\ timedOut /\ warned /\ pc = "done"
    /\ returned /\ snapshots = 1 /\ reveals >= 1 /\ observes >= 1
    /\ Len(result) > 0

====
